---- MODULE Spec2Model ----
(***************************************************************************)
(* A model of app/models.py of inklings_prototype: the friendship graph    *)
(* (UserProfile, FriendRequest), the privacy filters                       *)
(* (PrivacySettingsModel), the link graph (NodeModel, Link) and the        *)
(* similarity query (EmbeddableModel.get_similar_objects).                 *)
(*                                                                         *)
(* The database is modelled table by table as sets of rows; a User and its *)
(* UserProfile are both named by the user's number.  Every ORM call is one *)
(* step (Django runs add and remove of a many-to-many field inside their   *)
(* own transaction); a method of several ORM calls is several steps, and   *)
(* the steps of concurrent calls interleave.  A call that raises is        *)
(* modelled by the exception it raises: the one-to-one field is declared   *)
(* with related_name="user_profile" (models.py:376), so user.userprofile   *)
(* raises AttributeError and the lookup user__userprofile raises           *)
(* FieldError when a queryset resolves it.                                 *)
(***************************************************************************)
EXTENDS Integers, Sequences, FiniteSets, TLC

\* ------------------------------------------------------------------ bounds
\* users: of the friendship calls with their history, of the privacy filters
NumUsers == 2
NumViewers == 3
\* UserProfile method calls running at the same time
MaxCalls == 2
\* rows of the content tables: with the friendship graphs, with links, in a search
MaxVisNodes == 1
MaxNodes == 2
MaxRows == 3
\* rows of the Link table: in the link graph, in the creations with their
\* outcome, under the privacy filters
MaxGraphLinks == 2
MaxGraphNodes == 3
MaxLinks == 3
MaxVisLinks == 1
NumLinkTypes == 2
\* the distances of a search (in steps of the cosine distance) and its limits
MaxDist == 2
MaxLimit == 2

Users == 1..NumUsers
Viewers == 1..NumViewers
LinkTypes == 1..NumLinkTypes
Slots == 1..MaxCalls

VARIABLES
    friends,    \* rows of the through table of UserProfile.friends: <<from, to>>
    requests,   \* rows of FriendRequest: <<sender, receiver>>
    calls,      \* the UserProfile method calls that are between two statements
    last,       \* history: the statement just executed, its call and how it ended
    nodes,      \* rows of the Memo, Reference and Inkling tables
    links,      \* rows of the Link table
    linkResult, \* how the last Link creation ended
    query,      \* the arguments of the last get_similar_objects call
    result      \* the rows that call returned, in order

\* The value of `last` before any call, and of a slot of `calls` with no call.
NoCall == [op |-> "none", self |-> 0, other |-> 0, was |-> FALSE,
           wrote |-> FALSE, outcome |-> "none"]
NoQuery == [distance |-> <<>>, threshold |-> 0, limit |-> <<>>, raises |-> "none"]
NoLink == [outcome |-> "none", key |-> <<>>]
Idle == [op |-> "none", pc |-> "idle", self |-> 0, other |-> 0, wrote |-> FALSE]

\* ------------------------------------------------- UserProfile: the queries

\* UserProfile.is_friends_with: friend_profile in self.friends.all()
is_friends_with(self, friend_profile) == <<self, friend_profile>> \in friends

\* UserProfile.has_sent_request_to: a FriendRequest row (sender=self, receiver)
has_sent_request_to(self, receiver_profile) == <<self, receiver_profile>> \in requests

\* ------------------------------- the writes of the symmetrical many-to-many

\* friends.add(obj) on a symmetrical ManyToManyField('self'): both rows
friends_add(F, self, obj) == F \cup {<<self, obj>>, <<obj, self>>}

\* friends.remove(obj) on a symmetrical ManyToManyField('self'): both rows
friends_remove(F, self, obj) == F \ {<<self, obj>>, <<obj, self>>}

\* A removal that deletes the caller's row only.
remove_friend_one_direction(self, friend_profile) ==
    /\ friends' = friends \ {<<self, friend_profile>>}
    /\ UNCHANGED requests

\* UserProfile.remove_friend: its one statement
remove_friend(self, friend_profile) ==
    /\ friends' = friends_remove(friends, self, friend_profile)
    /\ UNCHANGED requests

\* UserProfile.reject_friend_request: its one statement
reject_friend_request(self, sender_profile) ==
    /\ requests' = requests \ {<<sender_profile, self>>}
    /\ UNCHANGED friends

\* ------------------------------------------------------------ the calls
\* `last` records the statement just executed: the method, its arguments,
\* what the method's own query had returned (is_friends_with for
\* remove_friend, has_sent_request_to for the others), whether the call has
\* changed a table so far, and how the statement left the call: "running"
\* (more statements follow), "returned", "IntegrityError" or "stopped".

Called(op, self, other, was, wrote, outcome) ==
    [op |-> op, self |-> self, other |-> other, was |-> was,
     wrote |-> wrote, outcome |-> outcome]

\* A call between two of its statements, about to execute the one named pc.
Call(op, pc, self, other, wrote) ==
    [op |-> op, pc |-> pc, self |-> self, other |-> other, wrote |-> wrote]

\* A call begins in the lowest free slot.
Free(i) == calls[i] = Idle /\ \A j \in Slots : j < i => calls[j] # Idle

\* ---------------------------- send_friend_request, statement by statement

\* models.py:382, not self.has_sent_request_to(receiver_profile): when the
\* request exists the `and` is decided and the method returns.
SendBegin(i, self, receiver) ==
    /\ Free(i)
    /\ IF has_sent_request_to(self, receiver)
       THEN /\ calls' = calls
            /\ last' = Called("send_friend_request", self, receiver, TRUE, FALSE, "returned")
       ELSE /\ calls' = [calls EXCEPT ![i] =
                            Call("send_friend_request", "is_friends_with", self, receiver, FALSE)]
            /\ last' = Called("send_friend_request", self, receiver, FALSE, FALSE, "running")
    /\ UNCHANGED <<friends, requests, nodes, links, linkResult, query, result>>

\* models.py:382, not self.is_friends_with(receiver_profile)
SendIsFriends(i) ==
    LET c == calls[i]
    IN  /\ c.pc = "is_friends_with"
        /\ IF is_friends_with(c.self, c.other)
           THEN /\ calls' = [calls EXCEPT ![i] = Idle]
                /\ last' = Called(c.op, c.self, c.other, FALSE, FALSE, "returned")
           ELSE /\ calls' = [calls EXCEPT ![i].pc = "create"]
                /\ last' = Called(c.op, c.self, c.other, FALSE, FALSE, "running")
        /\ UNCHANGED <<friends, requests, nodes, links, linkResult, query, result>>

\* models.py:383, FriendRequest.objects.create: the insert fails with
\* IntegrityError when the row exists by now (unique_together, line 415).
SendCreate(i) ==
    LET c == calls[i]
    IN  /\ c.pc = "create"
        /\ IF <<c.self, c.other>> \in requests
           THEN /\ requests' = requests
                /\ last' = Called(c.op, c.self, c.other, FALSE, FALSE, "IntegrityError")
           ELSE /\ requests' = requests \cup {<<c.self, c.other>>}
                /\ last' = Called(c.op, c.self, c.other, FALSE, TRUE, "returned")
        /\ calls' = [calls EXCEPT ![i] = Idle]
        /\ UNCHANGED <<friends, nodes, links, linkResult, query, result>>

\* --------------------------- accept_friend_request, statement by statement
\* The method body runs outside any transaction: each statement commits on
\* its own.

\* models.py:386, the test of the if
AcceptBegin(i, self, sender) ==
    /\ Free(i)
    /\ IF has_sent_request_to(sender, self)
       THEN /\ calls' = [calls EXCEPT ![i] =
                            Call("accept_friend_request", "add_self", self, sender, FALSE)]
            /\ last' = Called("accept_friend_request", self, sender, TRUE, FALSE, "running")
       ELSE /\ calls' = calls
            /\ last' = Called("accept_friend_request", self, sender, FALSE, FALSE, "returned")
    /\ UNCHANGED <<friends, requests, nodes, links, linkResult, query, result>>

\* models.py:387, self.friends.add(sender_profile)
AcceptAddSelf(i) ==
    LET c == calls[i]
        wrote == c.wrote \/ ~is_friends_with(c.self, c.other)
    IN  /\ c.pc = "add_self"
        /\ friends' = friends_add(friends, c.self, c.other)
        /\ calls' = [calls EXCEPT ![i].pc = "add_sender", ![i].wrote = wrote]
        /\ last' = Called(c.op, c.self, c.other, TRUE, wrote, "running")
        /\ UNCHANGED <<requests, nodes, links, linkResult, query, result>>

\* models.py:388, sender_profile.friends.add(self)
AcceptAddSender(i) ==
    LET c == calls[i]
        wrote == c.wrote \/ ~is_friends_with(c.other, c.self)
    IN  /\ c.pc = "add_sender"
        /\ friends' = friends_add(friends, c.other, c.self)
        /\ calls' = [calls EXCEPT ![i].pc = "delete", ![i].wrote = wrote]
        /\ last' = Called(c.op, c.self, c.other, TRUE, wrote, "running")
        /\ UNCHANGED <<requests, nodes, links, linkResult, query, result>>

\* models.py:389, FriendRequest.objects.filter(...).delete()
AcceptDelete(i) ==
    LET c == calls[i]
        wrote == c.wrote \/ has_sent_request_to(c.other, c.self)
    IN  /\ c.pc = "delete"
        /\ requests' = requests \ {<<c.other, c.self>>}
        /\ calls' = [calls EXCEPT ![i] = Idle]
        /\ last' = Called(c.op, c.self, c.other, TRUE, wrote, "returned")
        /\ UNCHANGED <<friends, nodes, links, linkResult, query, result>>

\* The process of a call stops before the call's next statement; nothing is
\* rolled back.
Stop(i) ==
    LET c == calls[i]
    IN  /\ c # Idle
        /\ calls' = [calls EXCEPT ![i] = Idle]
        /\ last' = Called(c.op, c.self, c.other,
                          c.op = "accept_friend_request", c.wrote, "stopped")
        /\ UNCHANGED <<friends, requests, nodes, links, linkResult, query, result>>

\* ------------------------------------------------ the one-statement methods

\* UserProfile.reject_friend_request
RejectFriendRequest(self, sender) ==
    /\ reject_friend_request(self, sender)
    /\ last' = Called("reject_friend_request", self, sender,
                      has_sent_request_to(sender, self),
                      has_sent_request_to(sender, self), "returned")
    /\ UNCHANGED <<calls, nodes, links, linkResult, query, result>>

\* UserProfile.remove_friend
RemoveFriend(self, friend) ==
    /\ remove_friend(self, friend)
    /\ last' = Called("remove_friend", self, friend,
                      is_friends_with(self, friend),
                      is_friends_with(self, friend) \/ is_friends_with(friend, self),
                      "returned")
    /\ UNCHANGED <<calls, nodes, links, linkResult, query, result>>

\* ============================================================ the node tables

\* The content types of line 291, the three concrete content models.
ContentKinds == {"memo", "reference", "inkling"}

\* PrivacySettingsModel.PRIVACY_CHOICES
PRIVATE == "private"
FRIENDS == "friends"
FRIENDS_OF_FRIENDS == "friends_of_friends"
PrivacyChoices == {PRIVATE, FRIENDS, FRIENDS_OF_FRIENDS}

\* The levels get_privacy_filter accepts; any other raises ValueError.
Levels == {"own", "friends", "fof"}

\* The rows of one content model's table.
objects(kind) == {n \in nodes : n.kind = kind}

\* A new row of a content model: the next primary key of its table, the
\* owner (UserOwnedModel.user) and the privacy setting.
CreateNode(kind, user, privacy_setting) ==
    nodes' = nodes \cup {[kind |-> kind,
                          pk |-> Cardinality(objects(kind)) + 1,
                          user |-> user,
                          privacy_setting |-> privacy_setting]}

\* ------------------------------------------------------ PrivacySettingsModel
\* A call either returns a value or raises an exception.

Returns(value) == [raises |-> "none", value |-> value]
Raises(exception) == [raises |-> exception, value |-> FALSE]

\* PrivacySettingsModel.is_viewable_by(self, user): the method takes no level.
\* Lines 55 and 60 begin by reading user.userprofile, a name User does not
\* have (the reverse accessor is user_profile): AttributeError, before any
\* friendship is looked at.
is_viewable_by(self, user) ==
    IF self.user = user THEN Returns(TRUE)
    ELSE IF self.privacy_setting = PRIVATE THEN Returns(FALSE)
    ELSE IF self.privacy_setting = FRIENDS THEN Raises("AttributeError")
    ELSE IF self.privacy_setting = FRIENDS_OF_FRIENDS THEN Raises("AttributeError")
    ELSE Returns(FALSE)

\* The Q objects, each as the test it makes of one row when a queryset
\* applies it.

\* _get_own_objects_filter: Q(user=user)
get_own_objects_filter(user, row) == Returns(row.user = user)

\* _get_friends_objects_filter:
\* Q(privacy_setting=FRIENDS, user__userprofile__friends=user).  The Q is
\* built; the queryset that applies it cannot resolve userprofile.
get_friends_objects_filter(user, row) == Raises("FieldError")

\* _get_friends_of_friends_objects_filter: line 92 reads user.userprofile
\* while the Q is being built.
get_friends_of_friends_objects_filter(user, row) == Raises("AttributeError")

\* What PrivacySettingsModel.get_privacy_filter(user, level) and the
\* queryset that applies its Q raise, whatever the rows: at 'friends' the Q
\* is built and fails in the queryset, at 'fof' building it fails.
privacy_filter_exception(user, level) ==
    IF level = "own" THEN "none"
    ELSE IF level = "friends" THEN "FieldError"
    ELSE IF level = "fof" THEN "AttributeError"
    ELSE "ValueError"

\* PrivacySettingsModel.get_privacy_filter(user, level), applied to a row
get_privacy_filter(user, level, row) ==
    IF level = "own" THEN get_own_objects_filter(user, row)
    ELSE IF level = "friends" THEN get_friends_objects_filter(user, row)
    ELSE IF level = "fof" THEN get_friends_of_friends_objects_filter(user, row)
    ELSE Raises("ValueError")

\* node_model.objects.filter(model_filter): the rows selected, or the exception
filtered_objects(kind, user, level) ==
    [raises |-> privacy_filter_exception(user, level),
     rows |-> IF privacy_filter_exception(user, level) = "none"
              THEN {n \in objects(kind) : get_privacy_filter(user, level, n).value}
              ELSE {}]

\* ============================================================== the Link table

\* A generic foreign key: (content type, object id).
Ref(content_type, object_id) == [content_type |-> content_type, object_id |-> object_id]

\* The rows a Link may be created between: the content rows and the links.
AllRefs ==
    {Ref(n.kind, n.pk) : n \in nodes} \cup {Ref("link", l.pk) : l \in links}

\* What a creation was asked to link: source, target and link type.
unique_fields(l) ==
    <<Ref(l.source_content_type, l.source_object_id),
      Ref(l.target_content_type, l.target_object_id), l.link_type>>

\* A uniqueness constraint that leaves the link type out.
unique_key_without_type(l) ==
    <<l.source_content_type, l.source_object_id,
      l.target_content_type, l.target_object_id>>

\* Link.Meta.unique_together
unique_key(l) ==
    <<l.source_content_type, l.source_object_id,
      l.target_content_type, l.target_object_id, l.link_type>>

\* The row of a new Link: the next primary key and the fields given.
link_row(user, privacy_setting, source, target, link_type) ==
    [pk |-> Cardinality(links) + 1,
     user |-> user,
     privacy_setting |-> privacy_setting,
     source_content_type |-> source.content_type,
     source_object_id |-> source.object_id,
     target_content_type |-> target.content_type,
     target_object_id |-> target.object_id,
     link_type |-> link_type]

\* The database's check of unique_together on insert.
violates_unique(row) == \E l \in links : unique_key(l) = unique_key(row)

\* Link.objects.create(...): the insert fails with IntegrityError when a row
\* with the same unique_together key exists, and inserts nothing.
create_link(user, privacy_setting, source, target, link_type) ==
    LET row == link_row(user, privacy_setting, source, target, link_type)
    IN  links' = IF violates_unique(row) THEN links ELSE links \cup {row}

\* The same creation with its outcome recorded.
CreateLink(user, privacy_setting, source, target, link_type) ==
    LET row == link_row(user, privacy_setting, source, target, link_type)
    IN  /\ create_link(user, privacy_setting, source, target, link_type)
        /\ linkResult' = [outcome |-> IF violates_unique(row)
                                      THEN "IntegrityError" ELSE "created",
                          key |-> unique_fields(row)]

\* The row a generic foreign key points at.
link_of(object_id) == CHOOSE l \in links : l.pk = object_id
node_of(content_type, object_id) ==
    CHOOSE n \in nodes : n.kind = content_type /\ n.pk = object_id

\* Link.is_viewable_by(self, user, privacy_level): line 281 calls the
\* is_viewable_by of the source, then (if that returned true) of the target,
\* with the user and the level.  An endpoint that is a Link answers by this
\* method again; a content row's method takes the user only, so the call
\* with a level raises TypeError.
RECURSIVE link_is_viewable_by(_, _, _)
link_is_viewable_by(self, user, privacy_level) ==
    LET viewable(content_type, object_id) ==
            IF content_type = "link"
            THEN link_is_viewable_by(link_of(object_id), user, privacy_level)
            ELSE Raises("TypeError")
        of_source == viewable(self.source_content_type, self.source_object_id)
    IN  IF of_source.raises # "none" \/ ~of_source.value
        THEN of_source
        ELSE viewable(self.target_content_type, self.target_object_id)

\* Link.get_privacy_filter(user, privacy_level), applied to a Link row: for
\* some content type, the source is a viewable row of that type and the
\* target is a viewable row of that same type.  The loop builds and applies
\* each content model's filter, and raises what that raises.
link_get_privacy_filter(user, privacy_level, row) ==
    IF privacy_filter_exception(user, privacy_level) # "none"
    THEN Raises(privacy_filter_exception(user, privacy_level))
    ELSE Returns(\E content_type \in ContentKinds :
            LET viewable == {n.pk : n \in filtered_objects(content_type, user,
                                                           privacy_level).rows}
            IN  /\ row.source_content_type = content_type
                /\ row.source_object_id \in viewable
                /\ row.target_content_type = content_type
                /\ row.target_object_id \in viewable)

\* ------------------------------------------------------ related_nodes_filter
\* The Q object a node builds to exclude candidates of one model class,
\* as the test it makes of the candidate row with primary key cand.

\* A filter that looks at the candidate's outgoing links only.
related_filter_sources_only(self, other_model_class, cand) ==
    \/ \E l \in links : /\ l.source_content_type = other_model_class
                        /\ l.source_object_id = cand
                        /\ l.source_content_type = other_model_class
    \/ /\ other_model_class = "link"
       /\ \/ /\ link_of(cand).source_content_type = self.content_type
             /\ link_of(cand).source_object_id = self.object_id
          \/ /\ link_of(cand).target_content_type = self.content_type
             /\ link_of(cand).target_object_id = self.object_id
    \/ /\ self.content_type = other_model_class
       /\ cand = self.object_id

\* NodeModel.related_nodes_filter.  source_links and target_links are the
\* candidate's own generic relations: the links whose source (target) is the
\* candidate row.
node_related_nodes_filter(self, other_model_class, cand) ==
    \* Q(source_links__source_content_type=other_model_content_type)
    \/ \E l \in links : /\ l.source_content_type = other_model_class
                        /\ l.source_object_id = cand
                        /\ l.source_content_type = other_model_class
    \* Q(target_links__target_content_type=other_model_content_type)
    \/ \E l \in links : /\ l.target_content_type = other_model_class
                        /\ l.target_object_id = cand
                        /\ l.target_content_type = other_model_class
    \* if other_model_class == Link
    \/ /\ other_model_class = "link"
       /\ \/ /\ link_of(cand).source_content_type = self.content_type
             /\ link_of(cand).source_object_id = self.object_id
          \/ /\ link_of(cand).target_content_type = self.content_type
             /\ link_of(cand).target_object_id = self.object_id
    \* if isinstance(self, other_model_class): Q(pk=self.pk)
    \/ /\ self.content_type = other_model_class
       /\ cand = self.object_id

\* Link.related_nodes_filter
link_related_nodes_filter(self, other_model_class, cand) ==
    LET me == link_of(self.object_id)
    IN  \/ node_related_nodes_filter(self, other_model_class, cand)
        \/ /\ me.source_content_type = other_model_class
           /\ cand = me.source_object_id
        \/ /\ me.target_content_type = other_model_class
           /\ cand = me.target_object_id

\* The method the node's class resolves to.
related_nodes_filter(self, other_model_class, cand) ==
    IF self.content_type = "link"
    THEN link_related_nodes_filter(self, other_model_class, cand)
    ELSE node_related_nodes_filter(self, other_model_class, cand)

\* ====================================================== get_similar_objects

\* The orders a set of rows can come back in under order_by('distance'):
\* every arrangement with the distances non-decreasing (rows at the same
\* distance come in whatever order the database gives).
orders_by_distance(S, distance) ==
    {f \in [1..Cardinality(S) -> S] :
        /\ \A i \in 1..Cardinality(S), j \in 1..Cardinality(S) : i # j => f[i] # f[j]
        /\ \A i \in 1..Cardinality(S), j \in 1..Cardinality(S) :
               i < j => distance[f[i]] <= distance[f[j]]}

\* queryset[:limit]
slice(rows, limit) == SubSeq(rows, 1, IF limit < Len(rows) THEN limit ELSE Len(rows))

\* if limit: queryset = queryset[:limit] -- limit is <<>> for None, <<k>> for k
truncate(rows, limit) ==
    IF limit # <<>> /\ limit[1] # 0 THEN slice(rows, limit[1]) ELSE rows

\* EmbeddableModel.get_similar_objects on a privacy-gated content model:
\* the exception it raises, or the primary keys of the rows it may return,
\* in each order it may return them.  distance[pk] is
\* CosineDistance('embedding', embedding) of row pk; exclude is the set of
\* rows the exclude_filter matches (empty for None).
get_similar_objects(kind, distance, user, exclude, limit, filter_theshold, privacy_level) ==
    LET selected == {n.pk : n \in {m \in objects(kind) :
                                     /\ distance[m.pk] < filter_theshold
                                     /\ get_privacy_filter(user, privacy_level, m).value
                                     /\ m.pk \notin exclude}}
    IN  [raises |-> privacy_filter_exception(user, privacy_level),
         rows |-> IF privacy_filter_exception(user, privacy_level) = "none"
                  THEN {truncate(rows, limit) : rows \in orders_by_distance(selected, distance)}
                  ELSE {}]

vars == <<friends, requests, calls, last, nodes, links, linkResult, query, result>>

Init ==
    /\ friends = {}
    /\ requests = {}
    /\ calls = [i \in Slots |-> Idle]
    /\ last = NoCall
    /\ nodes = {}
    /\ links = {}
    /\ linkResult = NoLink
    /\ query = NoQuery
    /\ result = <<>>

\* The friendship tables under concurrent calls of the four methods, one
\* statement at a time.
Next ==
    \/ \E i \in Slots, a \in Users, b \in Users : SendBegin(i, a, b)
    \/ \E i \in Slots : SendIsFriends(i)
    \/ \E i \in Slots : SendCreate(i)
    \/ \E i \in Slots, a \in Users, b \in Users : AcceptBegin(i, a, b)
    \/ \E i \in Slots : AcceptAddSelf(i)
    \/ \E i \in Slots : AcceptAddSender(i)
    \/ \E i \in Slots : AcceptDelete(i)
    \/ \E i \in Slots : Stop(i)
    \/ \E a \in Users, b \in Users : RejectFriendRequest(a, b)
    \/ \E a \in Users, b \in Users : RemoveFriend(a, b)

Spec == Init /\ [][Next]_vars

\* ---------------------------------------------- the privacy filters' world
\* Content rows of any owner and privacy setting over each friendship graph
\* the calls above can leave behind with no request pending.  The only
\* writes to the friends table are the symmetrical add and remove, of any
\* profile to any profile (itself included): the symmetric graphs.

FriendshipGraphs ==
    {F \in SUBSET (Viewers \X Viewers) :
        \A a \in Viewers, b \in Viewers : (<<a, b>> \in F) = (<<b, a>> \in F)}

InitVis ==
    /\ friends \in FriendshipGraphs
    /\ requests = {}
    /\ calls = [i \in Slots |-> Idle]
    /\ last = NoCall
    /\ nodes = {}
    /\ links = {}
    /\ linkResult = NoLink
    /\ query = NoQuery
    /\ result = <<>>

VisCreateNode ==
    /\ Cardinality(nodes) < MaxVisNodes
    /\ \E kind \in ContentKinds, user \in Viewers, privacy_setting \in PrivacyChoices :
           CreateNode(kind, user, privacy_setting)
    /\ UNCHANGED <<friends, requests, calls, last, links, linkResult, query, result>>

NextVis == VisCreateNode

SpecVis == InitVis /\ [][NextVis]_vars

\* ------------------------------------------------- links under the filters
\* Content rows and links between them, of any owner and privacy setting,
\* over the same friendship graphs.

LinkVisCreateNode ==
    /\ Cardinality(nodes) < MaxNodes
    /\ \E kind \in ContentKinds, user \in Viewers, privacy_setting \in PrivacyChoices :
           CreateNode(kind, user, privacy_setting)
    /\ UNCHANGED <<friends, requests, calls, last, links, linkResult, query, result>>

LinkVisCreateLink ==
    /\ Cardinality(links) < MaxVisLinks
    /\ \E user \in Viewers, privacy_setting \in PrivacyChoices,
          source \in AllRefs, target \in AllRefs, link_type \in LinkTypes :
           create_link(user, privacy_setting, source, target, link_type)
    /\ UNCHANGED <<friends, requests, calls, last, nodes, linkResult, query, result>>

NextLinkVis == LinkVisCreateNode \/ LinkVisCreateLink

SpecLinkVis == InitVis /\ [][NextLinkVis]_vars

\* ------------------------------------------------------------ the link graph
\* One user's content rows and links, each with the default privacy setting
\* and one link type (none of them is read by related_nodes_filter).

GraphCreateNode ==
    /\ Cardinality(nodes) < MaxGraphNodes
    /\ \E kind \in ContentKinds : CreateNode(kind, 1, PRIVATE)
    /\ UNCHANGED <<friends, requests, calls, last, links, linkResult, query, result>>

GraphCreateLink ==
    /\ Cardinality(links) < MaxGraphLinks
    /\ \E source \in AllRefs, target \in AllRefs :
           create_link(1, PRIVATE, source, target, 1)
    /\ UNCHANGED <<friends, requests, calls, last, nodes, linkResult, query, result>>

NextLinkGraph == GraphCreateNode \/ GraphCreateLink

SpecLinkGraph == Init /\ [][NextLinkGraph]_vars

\* -------------------------------------------------------- the link creations
\* One user's content rows and links of each link type, every creation with
\* its outcome.

LinksCreateNode ==
    /\ Cardinality(nodes) < MaxNodes
    /\ \E kind \in ContentKinds : CreateNode(kind, 1, PRIVATE)
    /\ UNCHANGED <<friends, requests, calls, last, links, linkResult, query, result>>

\* A creation is attempted while the table has room, or to repeat a link.
LinksCreateLink ==
    /\ \E source \in AllRefs, target \in AllRefs, link_type \in LinkTypes :
           /\ \/ Cardinality(links) < MaxLinks
              \/ \E l \in links : unique_fields(l) = <<source, target, link_type>>
           /\ CreateLink(1, PRIVATE, source, target, link_type)
    /\ UNCHANGED <<friends, requests, calls, last, nodes, query, result>>

NextLinks == LinksCreateNode \/ LinksCreateLink

SpecLinks == Init /\ [][NextLinks]_vars

\* ---------------------------------------------------------------- the search
\* Memo rows of any owner, then one get_similar_objects call over them at
\* any privacy level (the call writes nothing: a second call would see the
\* same table).


SearchCreateNode ==
    /\ query = NoQuery
    /\ Cardinality(nodes) < MaxRows
    /\ \E user \in Users : CreateNode("memo", user, PRIVATE)
    /\ UNCHANGED <<friends, requests, calls, last, links, linkResult, query, result>>

GetSimilarObjects ==
    /\ query = NoQuery
    /\ \E distance \in [{n.pk : n \in objects("memo")} -> 0..MaxDist],
          user \in Users,
          exclude \in {{}, {1}},
          limit \in {<<>>} \cup {<<k>> : k \in 0..MaxLimit},
          filter_theshold \in 0..(MaxDist + 1),
          privacy_level \in Levels :
           LET returned == get_similar_objects("memo", distance, user, exclude,
                                               limit, filter_theshold, privacy_level)
           IN  /\ IF returned.raises = "none"
                  THEN result' \in returned.rows
                  ELSE result' = <<>>
               /\ query' = [distance |-> distance, threshold |-> filter_theshold,
                            limit |-> limit, raises |-> returned.raises]
    /\ UNCHANGED <<friends, requests, calls, last, nodes, links, linkResult>>

NextSearch == SearchCreateNode \/ GetSimilarObjects

SpecSearch == Init /\ [][NextSearch]_vars

\* ======================================================== the friendship claims

\* C3: friendship is symmetric in every reachable state, and right after
\* remove_friend(a, b) neither a nor b is a friend of the other.
C3_FriendshipSymmetric ==
    /\ \A a \in Users, b \in Users : is_friends_with(a, b) = is_friends_with(b, a)
    /\ last.op = "remove_friend" =>
          /\ ~is_friends_with(last.self, last.other)
          /\ ~is_friends_with(last.other, last.self)

\* remove_friend was called by one of two friends while the accept that made
\* them friends is still between its statements, and they are friends no more.
C3_Witness ==
    /\ last.op = "remove_friend"
    /\ last.was
    /\ last.self # last.other
    /\ ~is_friends_with(last.self, last.other)
    /\ ~is_friends_with(last.other, last.self)
    /\ \E i \in Slots : /\ calls[i].op = "accept_friend_request"
                        /\ calls[i].wrote
                        /\ {calls[i].self, calls[i].other} = {last.self, last.other}

\* C4: when accept_friend_request(sender -> receiver), of two users, found
\* the request pending, the state it returns in has the two friends in both directions
\* and no request from the sender to the receiver; when it found none, it
\* changed neither the friendships nor the requests.
C4_AcceptContract ==
    /\ [](/\ last.op = "accept_friend_request"
          /\ last.outcome = "returned"
          /\ last.was
          /\ last.self # last.other
          => /\ is_friends_with(last.self, last.other)
             /\ is_friends_with(last.other, last.self)
             /\ ~has_sent_request_to(last.other, last.self))
    /\ [][(/\ last'.op = "accept_friend_request"
           /\ last'.outcome = "returned"
           /\ ~last'.was)
          => (friends' = friends /\ requests' = requests)]_vars

\* C9: no two friends have a request pending between them, in either direction.
C9_NoRequestBetweenFriends ==
    \A a \in Users, b \in Users :
        (a # b /\ is_friends_with(a, b))
        => (~has_sent_request_to(a, b) /\ ~has_sent_request_to(b, a))

\* C10: no state shows a write of an accept_friend_request between two
\* users that is still between its statements (the friendship it added in one direction only, or
\* with the request it accepts still pending), and none of the writes of an
\* accept that stopped part-way remains.
C10_AcceptAtomic ==
    /\ \A i \in Slots :
          (/\ calls[i].op = "accept_friend_request"
           /\ calls[i].wrote
           /\ calls[i].self # calls[i].other)
          => /\ is_friends_with(calls[i].self, calls[i].other)
                = is_friends_with(calls[i].other, calls[i].self)
             /\ ~(/\ is_friends_with(calls[i].self, calls[i].other)
                  /\ has_sent_request_to(calls[i].other, calls[i].self))
    /\ (/\ last.op = "accept_friend_request"
        /\ last.outcome = "stopped"
        /\ last.wrote
        /\ last.self # last.other)
       => ~is_friends_with(last.self, last.other)

\* ======================================================== the visibility claims

\* C1: for every content row, viewer and level, the single-object check
\* (is_viewable_by, which takes no level) and the bulk filter of that viewer
\* and level both answer, and the check answers true exactly when the filter
\* selects the row.
C1_SingleAgreesWithBulk ==
    \A n \in nodes, v \in Viewers, L \in Levels :
        /\ is_viewable_by(n, v).raises = "none"
        /\ get_privacy_filter(v, L, n).raises = "none"
        /\ is_viewable_by(n, v).value = get_privacy_filter(v, L, n).value

\* C2: a link is viewable by v at level L, by Link.is_viewable_by and by
\* Link.get_privacy_filter alike, exactly when its source and its target are
\* viewable by v at L (each endpoint judged by the same kind of check, the
\* single-object one or the bulk one, of the endpoint's own model), and all
\* of these checks answer.
C2_LinkViewableIffBothEndpoints ==
    \A l \in links, v \in Viewers, L \in Levels :
        LET single(content_type, object_id) ==
                IF content_type = "link"
                THEN link_is_viewable_by(link_of(object_id), v, L)
                ELSE is_viewable_by(node_of(content_type, object_id), v)
            bulk(content_type, object_id) ==
                IF content_type = "link"
                THEN link_get_privacy_filter(v, L, link_of(object_id))
                ELSE get_privacy_filter(v, L, node_of(content_type, object_id))
            answers == {link_is_viewable_by(l, v, L),
                        link_get_privacy_filter(v, L, l),
                        single(l.source_content_type, l.source_object_id),
                        single(l.target_content_type, l.target_object_id),
                        bulk(l.source_content_type, l.source_object_id),
                        bulk(l.target_content_type, l.target_object_id)}
        IN  /\ \A a \in answers : a.raises = "none"
            /\ link_is_viewable_by(l, v, L).value
               = (/\ single(l.source_content_type, l.source_object_id).value
                  /\ single(l.target_content_type, l.target_object_id).value)
            /\ link_get_privacy_filter(v, L, l).value
               = (/\ bulk(l.source_content_type, l.source_object_id).value
                  /\ bulk(l.target_content_type, l.target_object_id).value)

\* C5: a friends-of-friends row whose owner is not the viewer and not a
\* friend of the viewer, but shares a friend with the viewer, is viewable
\* when the check is made for level fof and not viewable when it is made for
\* level friends (is_viewable_by takes no level: it is the same call).
C5_LevelRestrictsFriendsOfFriends ==
    \A n \in nodes, v \in Viewers :
        (/\ n.user # v
         /\ ~is_friends_with(v, n.user)
         /\ \E m \in Viewers : is_friends_with(m, v) /\ is_friends_with(m, n.user)
         /\ n.privacy_setting = FRIENDS_OF_FRIENDS)
        => \A L \in {"fof", "friends"} :
               is_viewable_by(n, v) = Returns(L = "fof")

\* ============================================================ the search claim

\* C6: whenever a limit is given and the call returns, the rows returned
\* come in non-decreasing distance, each at a distance below the threshold,
\* and are no more than the limit.
C6_SortedBelowThresholdWithinLimit ==
    (query.limit # <<>> /\ query.raises = "none") =>
        /\ \A i \in 1..Len(result), j \in 1..Len(result) :
               i < j => query.distance[result[i]] <= query.distance[result[j]]
        /\ \A i \in 1..Len(result) : query.distance[result[i]] < query.threshold
        /\ Len(result) <= query.limit[1]

\* ======================================================== the link graph claims

\* The primary keys of a model's table: the candidates of that class.
Kinds == ContentKinds \cup {"link"}
pks(kind) == {r.object_id : r \in {x \in AllRefs : x.content_type = kind}}
source(l) == Ref(l.source_content_type, l.source_object_id)
target(l) == Ref(l.target_content_type, l.target_object_id)

\* Candidate cand of class kind is already related to node n: it is the
\* other end of a link touching n, a link with n as an endpoint, or n itself.
AlreadyRelated(n, kind, cand) ==
    \/ \E l \in links : \/ source(l) = n /\ target(l) = Ref(kind, cand)
                        \/ target(l) = n /\ source(l) = Ref(kind, cand)
    \/ /\ kind = "link"
       /\ \E l \in links : l.pk = cand /\ (source(l) = n \/ target(l) = n)
    \/ n = Ref(kind, cand)

\* C7: the exclusion filter of node n for candidates of a class selects
\* every candidate of that class that is already related to n.
C7_RelatedCandidatesExcluded ==
    \A n \in AllRefs, kind \in Kinds :
        \A cand \in pks(kind) :
            AlreadyRelated(n, kind, cand) => related_nodes_filter(n, kind, cand)

\* A content row linked, as a source, to a row of another class and to a
\* link, with a link between two other rows beside them.
C7_Witness ==
    \E n \in AllRefs, l1 \in links, l2 \in links :
        /\ n.content_type # "link"
        /\ source(l1) = n /\ target(l1).content_type \notin {"link", n.content_type}
        /\ source(l2) = n /\ target(l2).content_type = "link"
        /\ related_nodes_filter(n, target(l1).content_type, target(l1).object_id)
        /\ related_nodes_filter(n, "link", target(l2).object_id)

\* C8: no two links share source, target and link type; a creation that
\* repeats an existing link's source, target and type fails with
\* IntegrityError and leaves the table as it was, and any other creation
\* (the two ends swapped, another link type) adds the link.
C8_LinksUnique ==
    /\ [](\A l1 \in links, l2 \in links :
            (/\ source(l1) = source(l2)
             /\ target(l1) = target(l2)
             /\ l1.link_type = l2.link_type) => l1 = l2)
    /\ [][linkResult' # linkResult =>
            IF \E l \in links : <<source(l), target(l), l.link_type>> = linkResult'.key
            THEN /\ linkResult'.outcome = "IntegrityError"
                 /\ links' = links
            ELSE /\ linkResult'.outcome = "created"
                 /\ Cardinality(links') = Cardinality(links) + 1
                 /\ links \subseteq links'
                 /\ \E l \in links' \ links :
                        <<source(l), target(l), l.link_type>> = linkResult'.key]_vars

\* A repeated link was refused while the table holds a link, the same link
\* with its ends swapped, and the same link under another type.
C8_Witness ==
    /\ linkResult.outcome = "IntegrityError"
    /\ \E l1 \in links, l2 \in links, l3 \in links :
        /\ source(l1) # target(l1)
        /\ source(l2) = target(l1) /\ target(l2) = source(l1)
        /\ l2.link_type = l1.link_type
        /\ source(l3) = source(l1) /\ target(l3) = target(l1)
        /\ l3.link_type # l1.link_type
        /\ linkResult.key = <<source(l1), target(l1), l1.link_type>>

\* The candidate is one of the two rows a Link node itself joins.
OwnEndpoint(n, kind, cand) ==
    /\ n.content_type = "link"
    /\ Ref(kind, cand) \in {source(link_of(n.object_id)), target(link_of(n.object_id))}

\* C11: the exclusion filter of node n for candidates of a class selects a
\* candidate only if it is already related to n (the other end of a link
\* touching n, a link with n as an endpoint, n itself, or an end of the link
\* n is); a candidate whose links all join it to other rows is not selected.
C11_ExcludesOnlyRelated ==
    \A n \in AllRefs, kind \in Kinds :
        \A cand \in pks(kind) :
            related_nodes_filter(n, kind, cand) =>
                AlreadyRelated(n, kind, cand) \/ OwnEndpoint(n, kind, cand)

====
